---- MODULE Spec2Model ----
(***************************************************************************)
(* Client-side session and interaction state machine of HarvestGuru        *)
(* (frontend/src/App.js): the AuthProvider session store, the login form,  *)
(* the cascading crop-prediction form and the requests they exchange with  *)
(* the external HTTP API.                                                  *)
(*                                                                         *)
(* Conventions.  A JavaScript string is a TLA+ string; the text typed into *)
(* an <input type="number"> is a sequence of one-character strings, so     *)
(* that parseFloat can read it character by character ("" and <<>> are the *)
(* same value).  JavaScript numbers are records [num |-> n] with n counted *)
(* in hundredths; NaN and null are records of their own.  A string-typed   *)
(* slot that holds null (the token) holds NullStr.                         *)
(***************************************************************************)
EXTENDS Integers, Sequences, FiniteSets, TLC

\* ------------------------------------------------------------------ bounds
\* Largest number of requests awaiting their continuation at one time.
MaxInFlight == 3
\* Largest number of requests in flight for which another login or
\* registration is still submitted.
MaxAuthInFlight == 2
\* The chat is followed until the transcript holds this many messages.
MaxTranscript == 3
\* Largest number of requests in flight with which the prediction form is
\* mounted again: the three of its mount effect and those of the old form.
MaxRemountInFlight == 4

\* ------------------------------------------------------- JavaScript values
Null == [null |-> TRUE]
NullStr == "null"
NaN == [nan |-> TRUE]
Num(n) == [num |-> n]

Digits == {"0", "1", "2", "3", "4", "5", "6", "7", "8", "9"}

DigitVal(c) ==
    CASE c = "0" -> 0 [] c = "1" -> 1 [] c = "2" -> 2 [] c = "3" -> 3
      [] c = "4" -> 4 [] c = "5" -> 5 [] c = "6" -> 6 [] c = "7" -> 7
      [] c = "8" -> 8 [] c = "9" -> 9

\* Number of consecutive digits of s from position i on.
RECURSIVE LeadingDigits(_, _)
LeadingDigits(s, i) ==
    IF i > Len(s) THEN 0
    ELSE IF s[i] \notin Digits THEN 0
    ELSE 1 + LeadingDigits(s, i + 1)

\* Decimal value of the n digits of s that start at position i.
RECURSIVE DigitsValue(_, _, _)
DigitsValue(s, i, n) ==
    IF n = 0 THEN 0
    ELSE DigitsValue(s, i, n - 1) * 10 + DigitVal(s[i + n - 1])

\* parseFloat on the text of a number input: optional sign, digits, optional
\* fraction; NaN when no digit is read.  The value is kept in hundredths.
parseFloat(s) ==
    LET signed == Len(s) > 0 /\ s[1] \in {"-", "+"}
        start  == IF signed THEN 2 ELSE 1
        sign   == IF signed /\ s[1] = "-" THEN 0 - 1 ELSE 1
        ni     == LeadingDigits(s, start)
        dot    == start + ni
        hasDot == dot <= Len(s) /\ s[dot] = "."
        nf     == IF hasDot THEN LeadingDigits(s, dot + 1) ELSE 0
        tenths == IF nf >= 1 THEN DigitVal(s[dot + 1]) ELSE 0
        hunds  == IF nf >= 2 THEN DigitVal(s[dot + 2]) ELSE 0
    IN  IF ni = 0 /\ nf = 0 THEN NaN
        ELSE Num(sign * (DigitsValue(s, start, ni) * 100 + tenths * 10 + hunds))

\* a || b on strings coming from an error body: b when a is null or empty.
OrElse(a, b) == IF a = NullStr \/ a = "" THEN b ELSE a

\* ---------------------------------------------------------------- state
VARIABLES
    user,          \* AuthProvider: profile record or Null
    token,         \* AuthProvider: token state
    authLoading,   \* AuthProvider: loading
    storage,       \* localStorage item 'token'
    header,        \* axios.defaults.headers.common['Authorization'] (the token in it)
    isLogin,       \* LoginForm: login or register mode
    loginLoading,  \* LoginForm: loading
    activeTab,     \* MainApp: activeTab
    predictions,   \* Dashboard: predictions
    dashLoading,   \* Dashboard: loading
    formData,      \* CropPredictionForm: formData
    states,        \* CropPredictionForm: states
    districts,     \* CropPredictionForm: districts
    crops,         \* CropPredictionForm: crops
    soilTypes,     \* CropPredictionForm: soilTypes
    loading,       \* CropPredictionForm: loading
    prediction,    \* CropPredictionForm: prediction
    weatherData,   \* WeatherDashboard: weatherData
    weatherLoading, \* WeatherDashboard: loading
    messages,      \* ChatAssistant: messages
    newMessage,    \* ChatAssistant: newMessage
    selectedLanguage, \* ChatAssistant: selectedLanguage
    chatLoading,   \* ChatAssistant: loading
    net,           \* requests issued whose continuation has not run yet
    toast          \* the latest toast() call

authVars  == <<user, token, authLoading, storage, header>>
loginVars == <<isLogin, loginLoading>>
dashVars  == <<predictions, dashLoading>>
formVars  == <<formData, states, districts, crops, soilTypes, loading, prediction>>
weatherVars == <<weatherData, weatherLoading>>
chatVars  == <<messages, newMessage, selectedLanguage, chatLoading>>
vars == <<user, token, authLoading, storage, header, isLogin, loginLoading,
          activeTab, predictions, dashLoading, formData, states, districts, crops, soilTypes, loading,
          prediction, weatherData, weatherLoading, messages, newMessage,
          selectedLanguage, chatLoading, net, toast>>

\* ------------------------------------------------- the external API's data
Tokens == {"T1", "T2"}
Profile == [id |-> "u1", email |-> "a@b.in", name |-> "Asha", phone |-> "9"]

StateList == <<"Odisha", "Bihar">>
DistrictsOf(state) ==
    IF state = "Odisha" THEN <<"Puri">>
    ELSE IF state = "Bihar" THEN <<"Patna">>
    ELSE <<>>
CropList == <<"Rice">>
SoilTypeList == <<[name |-> "Alluvial", description |-> "river soil"]>>
Results ==
    { [predicted_yield |-> y, yield_unit |-> "quintals/hectare",
       district_average |-> 40, comparison_percentage |-> y - 40,
       confidence_score |-> 80, recommendations |-> <<"Use mulch">>]
      : y \in {38, 45} }

\* Text that passes through String.trim() is a sequence of its characters.
Greeting ==
    <<"H", "e", "l", "l", "o", "!", " ", "I", "'", "m", " ", "y", "o", "u",
      "r", " ", "f", "a", "r", "m", "i", "n", "g", " ", "a", "s", "s", "i",
      "s", "t", "a", "n", "t", ".", " ", "H", "o", "w", " ", "c", "a", "n",
      " ", "I", " ", "h", "e", "l", "p", " ", "y", "o", "u", " ", "t", "o",
      "d", "a", "y", "?">>
QuickQuestion ==
    <<"S", "o", "i", "l", " ", "p", "H", " ", "m", "a", "n", "a", "g", "e",
      "m", "e", "n", "t">>
\* GET /weather/{lat}/{lon}: temperature and rainfall in tenths.
WeatherReport ==
    [temperature |-> 312, humidity |-> 40, description |-> "clear sky",
     rainfall |-> 0]
\* POST /chat: the response text, with or without recommendations.
ChatReplies ==
    { [response |-> <<"O", "k">>, recommendations |-> <<"Use mulch">>],
      [response |-> <<"O", "k">>] }

NoToast == [title |-> "", description |-> "", variant |-> ""]
Toast(title, description, variant) ==
    [title |-> title, description |-> description, variant |-> variant]

SeqToSet(s) == {s[k] : k \in DOMAIN s}
RemoveAt(s, i) == SubSeq(s, 1, i - 1) \o SubSeq(s, i + 1, Len(s))

\* A request as axios sends it: the Authorization default of the moment is
\* attached; live says that the component that issued it is still mounted.
Request(op, auth, arg) ==
    [op |-> op, auth |-> auth, arg |-> arg, live |-> TRUE,
     status |-> "pending", data |-> Null]

\* ------------------------------------------------------ CropPredictionForm
InitialFormData ==
    [state |-> "", district |-> "", village |-> "", pincode |-> "",
     farm_size |-> <<>>, farm_size_unit |-> "hectare",
     crop_name |-> "", variety |-> "", sowing_date |-> "", season |-> "",
     soil_type |-> "", fertilizer_used |-> "", ph_level |-> <<>>,
     organic_carbon |-> <<>>,
     irrigation_source |-> "", irrigation_frequency |-> "",
     water_availability |-> ""]

\* MainApp shows the protected layout, and in it the component of activeTab.
MainShown == ~authLoading /\ user # Null
\* CropPredictionForm renders the form unless it holds a prediction.
FormShown == MainShown /\ activeTab = "predict" /\ prediction = Null
ResultShown == MainShown /\ activeTab = "predict" /\ prediction # Null

\* The stage of the prediction workflow, as the component renders it.
Stage ==
    IF prediction # Null THEN "Result"
    ELSE IF loading THEN "Submitting"
    ELSE "Editing"

\* disabled={...} of the submit button: !x of a string is x = "".
SubmitDisabled_IgnoresLoading ==
    \/ formData.state = ""
    \/ formData.crop_name = ""
    \/ formData.season = ""
    \/ formData.soil_type = ""
    \/ formData.irrigation_source = ""
    \/ formData.irrigation_frequency = ""
    \/ formData.farm_size = ""

SubmitDisabled ==
    \/ loading
    \/ formData.state = ""
    \/ formData.crop_name = ""
    \/ formData.season = ""
    \/ formData.soil_type = ""
    \/ formData.irrigation_source = ""
    \/ formData.irrigation_frequency = ""
    \/ formData.farm_size = ""

\* requestData of handleSubmit.
requestData_AlwaysParses ==
    [user_id |-> user.id,
     farm_details |->
        [state |-> formData.state, district |-> formData.district,
         village |-> formData.village, pincode |-> formData.pincode,
         farm_size |-> parseFloat(formData.farm_size),
         farm_size_unit |-> formData.farm_size_unit],
     crop_info |->
        [crop_name |-> formData.crop_name, variety |-> formData.variety,
         sowing_date |-> formData.sowing_date, season |-> formData.season],
     soil_inputs |->
        [soil_type |-> formData.soil_type,
         fertilizer_used |-> formData.fertilizer_used,
         ph_level |-> parseFloat(formData.ph_level),
         organic_carbon |-> parseFloat(formData.organic_carbon)],
     irrigation_info |->
        [irrigation_source |-> formData.irrigation_source,
         irrigation_frequency |-> formData.irrigation_frequency,
         water_availability |-> formData.water_availability]]

requestData ==
    [user_id |-> user.id,
     farm_details |->
        [state |-> formData.state, district |-> formData.district,
         village |-> formData.village, pincode |-> formData.pincode,
         farm_size |-> parseFloat(formData.farm_size),
         farm_size_unit |-> formData.farm_size_unit],
     crop_info |->
        [crop_name |-> formData.crop_name, variety |-> formData.variety,
         sowing_date |-> formData.sowing_date, season |-> formData.season],
     soil_inputs |->
        [soil_type |-> formData.soil_type,
         fertilizer_used |-> formData.fertilizer_used,
         ph_level |-> IF formData.ph_level # ""
                      THEN parseFloat(formData.ph_level) ELSE Null,
         organic_carbon |-> IF formData.organic_carbon # ""
                            THEN parseFloat(formData.organic_carbon) ELSE Null],
     irrigation_info |->
        [irrigation_source |-> formData.irrigation_source,
         irrigation_frequency |-> formData.irrigation_frequency,
         water_availability |-> formData.water_availability]]

\* The values a control of the form can deliver to handleInputChange: a
\* Select offers the items of its list, an Input any text (the number inputs
\* deliver "" for text that is not a number).
Offered(field, value) ==
    CASE field = "state" -> value \in SeqToSet(states)
      [] field = "district" ->
            formData.state # "" /\ value \in SeqToSet(districts)
      [] field = "crop_name" -> value \in SeqToSet(crops)
      [] field = "soil_type" ->
            value \in {soilTypes[k].name : k \in DOMAIN soilTypes}
      [] OTHER -> TRUE

\* handleInputChange(field, value), with the effect on [formData.state] that
\* the re-render runs: fetchDistricts(formData.state) when the state changed
\* to a non-empty value.
HandleInputChange(field, value) ==
    /\ FormShown
    /\ Offered(field, value)
    /\ formData' = [formData EXCEPT ![field] = value]
    /\ IF field = "state" /\ value # formData.state /\ value # ""
       THEN /\ Len(net) < MaxInFlight
            /\ net' = Append(net, Request("districts", header, [state |-> value]))
       ELSE net' = net
    /\ UNCHANGED <<states, districts, crops, soilTypes, loading, prediction>>
    /\ UNCHANGED <<authVars, loginVars, dashVars, activeTab, weatherVars, chatVars, toast>>

\* handleSubmit up to its await: the form is submitted through its submit
\* button, which the browser refuses while the button is disabled.
HandleSubmit ==
    /\ FormShown
    /\ ~SubmitDisabled
    /\ Len(net) < MaxInFlight
    /\ loading' = TRUE
    /\ net' = Append(net, Request("predict", header, requestData))
    /\ UNCHANGED <<formData, states, districts, crops, soilTypes, prediction>>
    /\ UNCHANGED <<authVars, loginVars, dashVars, activeTab, weatherVars, chatVars, toast>>

\* handleSubmit after its await, for the request at position i of net.  The
\* setters of a component that is no longer mounted change nothing.
HandleSubmitResume_LoadingStuck(i) ==
    /\ i \in DOMAIN net
    /\ net[i].op = "predict"
    /\ net[i].status # "pending"
    /\ net' = RemoveAt(net, i)
    /\ IF net[i].status = "ok"
       THEN /\ prediction' = IF net[i].live THEN net[i].data ELSE prediction
            /\ loading' = loading
            /\ toast' = Toast("Success",
                              "Crop yield prediction generated successfully!",
                              "default")
       ELSE /\ prediction' = prediction
            /\ loading' = IF net[i].live THEN FALSE ELSE loading
            /\ toast' = Toast("Error",
                              OrElse(net[i].data.detail,
                                     "Failed to generate prediction"),
                              "destructive")
    /\ UNCHANGED <<formData, states, districts, crops, soilTypes>>
    /\ UNCHANGED <<authVars, loginVars, dashVars, activeTab, weatherVars, chatVars>>

HandleSubmitResume_ClearsForm(i) ==
    /\ i \in DOMAIN net
    /\ net[i].op = "predict"
    /\ net[i].status # "pending"
    /\ net' = RemoveAt(net, i)
    /\ IF net[i].status = "ok"
       THEN /\ prediction' = IF net[i].live THEN net[i].data ELSE prediction
            /\ formData' = formData
            /\ toast' = Toast("Success",
                              "Crop yield prediction generated successfully!",
                              "default")
       ELSE /\ prediction' = prediction
            /\ formData' = IF net[i].live THEN InitialFormData ELSE formData
            /\ toast' = Toast("Error",
                              OrElse(net[i].data.detail,
                                     "Failed to generate prediction"),
                              "destructive")
    /\ loading' = IF net[i].live THEN FALSE ELSE loading
    /\ UNCHANGED <<states, districts, crops, soilTypes>>
    /\ UNCHANGED <<authVars, loginVars, dashVars, activeTab, weatherVars, chatVars>>

HandleSubmitResume_Retries(i) ==
    /\ i \in DOMAIN net
    /\ net[i].op = "predict"
    /\ net[i].status # "pending"
    /\ IF net[i].status = "ok"
       THEN /\ prediction' = IF net[i].live THEN net[i].data ELSE prediction
            /\ net' = RemoveAt(net, i)
            /\ toast' = Toast("Success",
                              "Crop yield prediction generated successfully!",
                              "default")
       ELSE /\ prediction' = prediction
            /\ net' = Append(RemoveAt(net, i),
                             Request("predict", header, net[i].arg))
            /\ toast' = Toast("Error",
                              OrElse(net[i].data.detail,
                                     "Failed to generate prediction"),
                              "destructive")
    /\ loading' = IF net[i].live THEN FALSE ELSE loading
    /\ UNCHANGED <<formData, states, districts, crops, soilTypes>>
    /\ UNCHANGED <<authVars, loginVars, dashVars, activeTab, weatherVars, chatVars>>

HandleSubmitResume_ReachesNewForm(i) ==
    /\ i \in DOMAIN net
    /\ net[i].op = "predict"
    /\ net[i].status # "pending"
    /\ net' = RemoveAt(net, i)
    /\ IF net[i].status = "ok"
       THEN /\ prediction' = net[i].data
            /\ toast' = Toast("Success",
                              "Crop yield prediction generated successfully!",
                              "default")
       ELSE /\ prediction' = prediction
            /\ toast' = Toast("Error",
                              OrElse(net[i].data.detail,
                                     "Failed to generate prediction"),
                              "destructive")
    /\ loading' = IF net[i].live THEN FALSE ELSE loading
    /\ UNCHANGED <<formData, states, districts, crops, soilTypes>>
    /\ UNCHANGED <<authVars, loginVars, dashVars, activeTab, weatherVars, chatVars>>

HandleSubmitResume(i) ==
    /\ i \in DOMAIN net
    /\ net[i].op = "predict"
    /\ net[i].status # "pending"
    /\ net' = RemoveAt(net, i)
    /\ IF net[i].status = "ok"
       THEN /\ prediction' = IF net[i].live THEN net[i].data ELSE prediction
            /\ toast' = Toast("Success",
                              "Crop yield prediction generated successfully!",
                              "default")
       ELSE /\ prediction' = prediction
            /\ toast' = Toast("Error",
                              OrElse(net[i].data.detail,
                                     "Failed to generate prediction"),
                              "destructive")
    /\ loading' = IF net[i].live THEN FALSE ELSE loading
    /\ UNCHANGED <<formData, states, districts, crops, soilTypes>>
    /\ UNCHANGED <<authVars, loginVars, dashVars, activeTab, weatherVars, chatVars>>

\* onClick of "Make Another Prediction".
MakeAnotherPrediction ==
    /\ ResultShown
    /\ prediction' = Null
    /\ UNCHANGED <<formData, states, districts, crops, soilTypes, loading>>
    /\ UNCHANGED <<authVars, loginVars, dashVars, activeTab, weatherVars, chatVars, net, toast>>

\* fetchDistricts after its await, for the request at position i of net.
FetchDistrictsResume_ReachesNewForm(i) ==
    /\ i \in DOMAIN net
    /\ net[i].op = "districts"
    /\ net[i].status # "pending"
    /\ net' = RemoveAt(net, i)
    /\ IF net[i].status = "ok"
       THEN /\ districts' = net[i].data.districts
            /\ toast' = toast
       ELSE /\ districts' = districts
            /\ toast' = Toast("Error", "Failed to fetch districts", "destructive")
    /\ UNCHANGED <<formData, states, crops, soilTypes, loading, prediction>>
    /\ UNCHANGED <<authVars, loginVars, dashVars, activeTab, weatherVars, chatVars>>

FetchDistrictsResume_FailureEmpties(i) ==
    /\ i \in DOMAIN net
    /\ net[i].op = "districts"
    /\ net[i].status # "pending"
    /\ net' = RemoveAt(net, i)
    /\ IF net[i].status = "ok"
       THEN /\ districts' = IF net[i].live THEN net[i].data.districts
                            ELSE districts
            /\ toast' = toast
       ELSE /\ districts' = <<>>
            /\ toast' = Toast("Error", "Failed to fetch districts", "destructive")
    /\ UNCHANGED <<formData, states, crops, soilTypes, loading, prediction>>
    /\ UNCHANGED <<authVars, loginVars, dashVars, activeTab, weatherVars, chatVars>>

\* fetchDistricts after its await, for the request at position i of net.
FetchDistrictsResume(i) ==
    /\ i \in DOMAIN net
    /\ net[i].op = "districts"
    /\ net[i].status # "pending"
    /\ net' = RemoveAt(net, i)
    /\ IF net[i].status = "ok"
       THEN /\ districts' = IF net[i].live THEN net[i].data.districts
                            ELSE districts
            /\ toast' = toast
       ELSE /\ districts' = districts
            /\ toast' = Toast("Error", "Failed to fetch districts", "destructive")
    /\ UNCHANGED <<formData, states, crops, soilTypes, loading, prediction>>
    /\ UNCHANGED <<authVars, loginVars, dashVars, activeTab, weatherVars, chatVars>>

\* --------------------------------------------------------- reference lists
\* fetchStates after its await.
FetchStatesResume_ClearsCrops(i) ==
    /\ i \in DOMAIN net
    /\ net[i].op = "states"
    /\ net[i].status # "pending"
    /\ net' = RemoveAt(net, i)
    /\ IF net[i].status = "ok"
       THEN /\ states' = IF net[i].live THEN net[i].data.states ELSE states
            /\ crops' = crops
            /\ toast' = toast
       ELSE /\ states' = states
            /\ crops' = IF net[i].live THEN <<>> ELSE crops
            /\ toast' = Toast("Error", "Failed to fetch states", "destructive")
    /\ UNCHANGED <<formData, districts, soilTypes, loading, prediction>>
    /\ UNCHANGED <<authVars, loginVars, dashVars, activeTab, weatherVars, chatVars>>

\* fetchStates after its await.
FetchStatesResume(i) ==
    /\ i \in DOMAIN net
    /\ net[i].op = "states"
    /\ net[i].status # "pending"
    /\ net' = RemoveAt(net, i)
    /\ IF net[i].status = "ok"
       THEN /\ states' = IF net[i].live THEN net[i].data.states ELSE states
            /\ toast' = toast
       ELSE /\ states' = states
            /\ toast' = Toast("Error", "Failed to fetch states", "destructive")
    /\ UNCHANGED <<formData, districts, crops, soilTypes, loading, prediction>>
    /\ UNCHANGED <<authVars, loginVars, dashVars, activeTab, weatherVars, chatVars>>

\* fetchCrops after its await.
FetchCropsResume(i) ==
    /\ i \in DOMAIN net
    /\ net[i].op = "crops"
    /\ net[i].status # "pending"
    /\ net' = RemoveAt(net, i)
    /\ IF net[i].status = "ok"
       THEN /\ crops' = IF net[i].live THEN net[i].data.crops ELSE crops
            /\ toast' = toast
       ELSE /\ crops' = crops
            /\ toast' = Toast("Error", "Failed to fetch crops", "destructive")
    /\ UNCHANGED <<formData, states, districts, soilTypes, loading, prediction>>
    /\ UNCHANGED <<authVars, loginVars, dashVars, activeTab, weatherVars, chatVars>>

\* fetchSoilTypes after its await.
FetchSoilTypesResume(i) ==
    /\ i \in DOMAIN net
    /\ net[i].op = "soil-types"
    /\ net[i].status # "pending"
    /\ net' = RemoveAt(net, i)
    /\ IF net[i].status = "ok"
       THEN /\ soilTypes' = IF net[i].live THEN net[i].data.soilTypes
                            ELSE soilTypes
            /\ toast' = toast
       ELSE /\ soilTypes' = soilTypes
            /\ toast' = Toast("Error", "Failed to fetch soil types",
                              "destructive")
    /\ UNCHANGED <<formData, states, districts, crops, loading, prediction>>
    /\ UNCHANGED <<authVars, loginVars, dashVars, activeTab, weatherVars, chatVars>>

\* -------------------------------------------------------- WeatherDashboard
WeatherShown == MainShown /\ activeTab = "weather"

\* The sample data fetchWeather falls back to (tenths).
SampleWeather ==
    [temperature |-> 285, humidity |-> 65, description |-> "partly cloudy",
     rainfall |-> 25]

\* fetchWeather after its await.
FetchWeatherResume(i) ==
    /\ i \in DOMAIN net
    /\ net[i].op = "weather"
    /\ net[i].status # "pending"
    /\ net' = RemoveAt(net, i)
    /\ IF net[i].status = "ok"
       THEN /\ weatherData' = IF net[i].live THEN net[i].data ELSE weatherData
            /\ toast' = toast
       ELSE /\ weatherData' = IF net[i].live THEN SampleWeather
                              ELSE weatherData
            /\ toast' = Toast("Info", "Using sample weather data", "default")
    /\ weatherLoading' = IF net[i].live THEN FALSE ELSE weatherLoading
    /\ UNCHANGED <<authVars, loginVars, dashVars, activeTab, formVars, chatVars>>

\* ----------------------------------------------------------- ChatAssistant
ChatShown == MainShown /\ activeTab = "chat"

InitialMessages ==
    <<[type |-> "bot", content |-> Greeting, language |-> "en"]>>

Languages == {"en", "hi", "bn", "or"}

\* String.prototype.trim(): white space is removed from both ends.
WhiteSpace == {" ", "\t", "\n"}
RECURSIVE trimStart(_)
trimStart(s) ==
    IF Len(s) = 0 THEN <<>>
    ELSE IF Head(s) \in WhiteSpace THEN trimStart(Tail(s))
    ELSE s
RECURSIVE trimEnd(_)
trimEnd(s) ==
    IF Len(s) = 0 THEN <<>>
    ELSE IF s[Len(s)] \in WhiteSpace THEN trimEnd(SubSeq(s, 1, Len(s) - 1))
    ELSE s
trim(s) == trimEnd(trimStart(s))

\* onChange of the Textarea, which is disabled while loading.
ChangeMessage(text) ==
    /\ ChatShown
    /\ ~chatLoading
    /\ newMessage' = text
    /\ UNCHANGED <<messages, selectedLanguage, chatLoading>>
    /\ UNCHANGED <<authVars, loginVars, dashVars, activeTab, formVars, weatherVars, net, toast>>

\* onClick of a quick-question button.
AskQuickQuestion_Sends(question) ==
    /\ ChatShown
    /\ Len(net) < MaxInFlight
    /\ newMessage' = question
    /\ messages' = Append(messages, [type |-> "user", content |-> question,
                                     language |-> selectedLanguage])
    /\ chatLoading' = TRUE
    /\ net' = Append(net, Request("chat", header,
                                  [message |-> question,
                                   language |-> selectedLanguage]))
    /\ UNCHANGED selectedLanguage
    /\ UNCHANGED <<authVars, loginVars, dashVars, activeTab, formVars, weatherVars, toast>>

\* onClick of a quick-question button.
AskQuickQuestion(question) ==
    /\ ChatShown
    /\ newMessage' = question
    /\ UNCHANGED <<messages, selectedLanguage, chatLoading>>
    /\ UNCHANGED <<authVars, loginVars, dashVars, activeTab, formVars, weatherVars, net, toast>>

\* onValueChange of the language Select.
SetSelectedLanguage_RetagsTurns(language) ==
    /\ ChatShown
    /\ language \in Languages
    /\ selectedLanguage' = language
    /\ messages' = [k \in DOMAIN messages |->
                       IF messages[k].type = "user"
                       THEN [messages[k] EXCEPT !.language = language]
                       ELSE messages[k]]
    /\ UNCHANGED <<newMessage, chatLoading>>
    /\ UNCHANGED <<authVars, loginVars, dashVars, activeTab, formVars, weatherVars, net, toast>>

\* onValueChange of the language Select.
SetSelectedLanguage(language) ==
    /\ ChatShown
    /\ language \in Languages
    /\ selectedLanguage' = language
    /\ UNCHANGED <<messages, newMessage, chatLoading>>
    /\ UNCHANGED <<authVars, loginVars, dashVars, activeTab, formVars, weatherVars, net, toast>>

\* sendMessage up to its await, from the send button (disabled while loading
\* or when the text trims to nothing) or from Enter in the Textarea
\* (disabled while loading; sendMessage returns when the text trims to
\* nothing).
SendMessage ==
    /\ ChatShown
    /\ ~chatLoading
    /\ Len(trim(newMessage)) # 0
    /\ Len(net) < MaxInFlight
    /\ Len(messages) < MaxTranscript
    /\ messages' = Append(messages, [type |-> "user", content |-> newMessage,
                                     language |-> selectedLanguage])
    /\ chatLoading' = TRUE
    /\ net' = Append(net, Request("chat", header,
                                  [message |-> newMessage,
                                   language |-> selectedLanguage]))
    /\ UNCHANGED <<newMessage, selectedLanguage>>
    /\ UNCHANGED <<authVars, loginVars, dashVars, activeTab, formVars, weatherVars, toast>>

\* The bot message sendMessage builds from a response; selectedLanguage is
\* the one of the render that sent the request.
botMessage(r) ==
    IF "recommendations" \in DOMAIN r.data
    THEN [type |-> "bot", content |-> r.data.response,
          language |-> r.arg.language,
          recommendations |-> r.data.recommendations]
    ELSE [type |-> "bot", content |-> r.data.response,
          language |-> r.arg.language]

SendMessageResume_TagsSelectedLanguage(i) ==
    /\ i \in DOMAIN net
    /\ net[i].op = "chat"
    /\ net[i].status # "pending"
    /\ net' = RemoveAt(net, i)
    /\ IF net[i].status = "ok"
       THEN /\ messages' = IF net[i].live
                           THEN Append(messages,
                                       [botMessage(net[i]) EXCEPT
                                           !.language = selectedLanguage])
                           ELSE messages
            /\ toast' = toast
       ELSE /\ messages' = messages
            /\ toast' = Toast("Error", "Failed to get response from assistant",
                              "destructive")
    /\ chatLoading' = IF net[i].live THEN FALSE ELSE chatLoading
    /\ newMessage' = IF net[i].live THEN <<>> ELSE newMessage
    /\ UNCHANGED selectedLanguage
    /\ UNCHANGED <<authVars, loginVars, dashVars, activeTab, formVars, weatherVars>>

\* sendMessage after its await, for the request at position i of net.
SendMessageResume_DropsToken(i) ==
    /\ i \in DOMAIN net
    /\ net[i].op = "chat"
    /\ net[i].status # "pending"
    /\ net' = RemoveAt(net, i)
    /\ IF net[i].status = "ok"
       THEN /\ messages' = IF net[i].live
                           THEN Append(messages, botMessage(net[i]))
                           ELSE messages
            /\ toast' = toast
            /\ UNCHANGED <<token, storage, header>>
       ELSE /\ messages' = messages
            /\ toast' = Toast("Error", "Failed to get response from assistant",
                              "destructive")
            /\ token' = NullStr /\ storage' = NullStr /\ header' = NullStr
    /\ chatLoading' = IF net[i].live THEN FALSE ELSE chatLoading
    /\ newMessage' = IF net[i].live THEN <<>> ELSE newMessage
    /\ UNCHANGED selectedLanguage
    /\ UNCHANGED <<user, authLoading, loginVars, dashVars, activeTab, formVars, weatherVars>>

SendMessageResume_LoadingStuck(i) ==
    /\ i \in DOMAIN net
    /\ net[i].op = "chat"
    /\ net[i].status # "pending"
    /\ net' = RemoveAt(net, i)
    /\ IF net[i].status = "ok"
       THEN /\ messages' = IF net[i].live
                           THEN Append(messages, botMessage(net[i]))
                           ELSE messages
            /\ toast' = toast
            /\ chatLoading' = IF net[i].live THEN FALSE ELSE chatLoading
            /\ newMessage' = IF net[i].live THEN <<>> ELSE newMessage
       ELSE /\ messages' = messages
            /\ toast' = Toast("Error", "Failed to get response from assistant",
                              "destructive")
            /\ UNCHANGED <<chatLoading, newMessage>>
    /\ UNCHANGED selectedLanguage
    /\ UNCHANGED <<authVars, loginVars, dashVars, activeTab, formVars, weatherVars>>

SendMessageResume(i) ==
    /\ i \in DOMAIN net
    /\ net[i].op = "chat"
    /\ net[i].status # "pending"
    /\ net' = RemoveAt(net, i)
    /\ IF net[i].status = "ok"
       THEN /\ messages' = IF net[i].live
                           THEN Append(messages, botMessage(net[i]))
                           ELSE messages
            /\ toast' = toast
       ELSE /\ messages' = messages
            /\ toast' = Toast("Error", "Failed to get response from assistant",
                              "destructive")
    /\ chatLoading' = IF net[i].live THEN FALSE ELSE chatLoading
    /\ newMessage' = IF net[i].live THEN <<>> ELSE newMessage
    /\ UNCHANGED selectedLanguage
    /\ UNCHANGED <<authVars, loginVars, dashVars, activeTab, formVars, weatherVars>>

\* ----------------------------------------------------------- external API
\* The bodies the API may answer a request with; a failure carries the
\* detail of error.response?.data?.detail, NullStr when there is none
\* (no response at all, or an error body without detail).
Answers(r) ==
    CASE r.op = "districts" ->
            {[status |-> "ok", data |-> [districts |-> DistrictsOf(r.arg.state)]],
             [status |-> "fail", data |-> [detail |-> NullStr]]}
      [] r.op = "predict" ->
            {[status |-> "ok", data |-> res] : res \in Results}
            \cup {[status |-> "fail", data |-> [detail |-> d]]
                  : d \in {NullStr, "Invalid input data"}}
      [] r.op \in {"login", "register"} ->
            {[status |-> "ok", data |-> [access_token |-> t, user |-> Profile]]
             : t \in Tokens}
            \cup {[status |-> "fail", data |-> [detail |-> d]]
                  : d \in {NullStr, "Invalid credentials"}}
      [] r.op = "me" ->
            {[status |-> "ok", data |-> Profile],
             [status |-> "fail", data |-> [detail |-> NullStr]]}
      [] r.op = "my-predictions" ->
            {[status |-> "ok",
              data |-> [predictions |-> <<CHOOSE res \in Results : TRUE>>]],
             [status |-> "fail", data |-> [detail |-> NullStr]]}
      [] r.op = "states" ->
            {[status |-> "ok", data |-> [states |-> StateList]],
             [status |-> "fail", data |-> [detail |-> NullStr]]}
      [] r.op = "crops" ->
            {[status |-> "ok", data |-> [crops |-> CropList]],
             [status |-> "fail", data |-> [detail |-> NullStr]]}
      [] r.op = "soil-types" ->
            {[status |-> "ok", data |-> [soilTypes |-> SoilTypeList]],
             [status |-> "fail", data |-> [detail |-> NullStr]]}
      [] r.op = "weather" ->
            {[status |-> "ok", data |-> WeatherReport],
             [status |-> "fail", data |-> [detail |-> NullStr]]}
      [] r.op = "chat" ->
            {[status |-> "ok", data |-> reply] : reply \in ChatReplies}
            \cup {[status |-> "fail", data |-> [detail |-> d]]
                  : d \in {NullStr, "Could not validate credentials"}}

\* The response (or the failure) of the request at position i arrives.
ServerRespond(i) ==
    /\ i \in DOMAIN net
    /\ net[i].status = "pending"
    /\ \E a \in Answers(net[i]) :
          net' = [net EXCEPT ![i].status = a.status, ![i].data = a.data]
    /\ UNCHANGED <<authVars, loginVars, dashVars, activeTab, weatherVars, chatVars, formVars, toast>>

\* ------------------------------------------------- the prediction workflow
\* The session is authenticated, the Predict tab is open and the reference
\* lists have been loaded.
InitPredict ==
    /\ user = Profile /\ token = "T1" /\ storage = "T1" /\ header = "T1"
    /\ authLoading = FALSE
    /\ isLogin = TRUE /\ loginLoading = FALSE
    /\ activeTab = "predict"
    /\ predictions = <<>> /\ dashLoading = TRUE
    /\ formData = InitialFormData
    /\ states = StateList /\ districts = <<>>
    /\ crops = CropList /\ soilTypes = SoilTypeList
    /\ loading = FALSE /\ prediction = Null
    /\ weatherData = Null /\ weatherLoading = FALSE
    /\ messages = InitialMessages /\ newMessage = <<>>
    /\ selectedLanguage = "en" /\ chatLoading = FALSE
    /\ net = <<>> /\ toast = NoToast

\* The inputs tried in the prediction workflow.
PredictInputs(field) ==
    CASE field = "state" -> {"Odisha"}
      [] field = "crop_name" -> {"Rice"}
      [] field = "season" -> {"Kharif"}
      [] field = "soil_type" -> {"Alluvial"}
      [] field = "irrigation_source" -> {"Canal"}
      [] field = "irrigation_frequency" -> {"Regularly"}
      [] field = "farm_size" -> {<<>>, <<"0">>, <<"-", "1">>, <<"2", ".", "5">>}
      [] field = "ph_level" -> {<<>>, <<"0">>, <<"6", ".", "5">>}
      [] field = "organic_carbon" -> {<<>>, <<"0", ".", "7", "5">>}
PredictFields ==
    {"state", "crop_name", "season", "soil_type", "irrigation_source",
     "irrigation_frequency", "farm_size", "ph_level", "organic_carbon"}

EditPredict ==
    \E field \in PredictFields : \E value \in PredictInputs(field) :
        HandleInputChange(field, value)
RespondAny == \E i \in DOMAIN net : ServerRespond(i)
SubmitDone == \E i \in DOMAIN net : HandleSubmitResume(i)
DistrictsDone == \E i \in DOMAIN net : FetchDistrictsResume(i)

NextPredict ==
    \/ EditPredict
    \/ HandleSubmit
    \/ RespondAny
    \/ SubmitDone
    \/ DistrictsDone
    \/ MakeAnotherPrediction

SpecPredict == InitPredict /\ [][NextPredict]_vars

\* ------------------------------------------------ properties, SpecPredict
IsPositive(v) == v # NaN /\ v.num > 0

RequiredPresent ==
    /\ formData.state # ""
    /\ formData.crop_name # ""
    /\ formData.season # ""
    /\ formData.soil_type # ""
    /\ formData.irrigation_source # ""
    /\ formData.irrigation_frequency # ""
    /\ formData.farm_size # ""

LivePredicts == {i \in DOMAIN net : net[i].op = "predict" /\ net[i].live}

\* C3 (as claimed): while the workflow is in Editing, submission is enabled
\* if and only if every required field is non-empty and farm_size is a
\* positive number.
C3_EnabledIffRequiredAndPositive ==
    (FormShown /\ Stage = "Editing") =>
        (~SubmitDisabled <=>
            (RequiredPresent /\ IsPositive(parseFloat(formData.farm_size))))

\* C4: while a submission is outstanding the submit button is disabled
\* whatever the fields hold, and the workflow never has more than one
\* predict-yield request in flight.
C4_OneSubmissionInFlight ==
    /\ Cardinality(LivePredicts) <= 1
    /\ LivePredicts # {} => (loading /\ SubmitDisabled)

C4_Witness ==
    /\ LivePredicts # {}
    /\ RequiredPresent
    /\ Stage = "Submitting"

\* C5: the stage changes only by Editing->Submitting on submission,
\* Submitting->Result on a successful response (the result held is the one
\* returned), Submitting->Editing on a failed response and Result->Editing on
\* "Make Another Prediction".
C5_StageTransitions ==
    [][Stage' # Stage =>
        \/ /\ Stage = "Editing" /\ Stage' = "Submitting"
           /\ HandleSubmit
        \/ /\ Stage = "Submitting" /\ Stage' = "Result"
           /\ \E i \in DOMAIN net :
                 /\ net[i].op = "predict" /\ net[i].status = "ok"
                 /\ HandleSubmitResume(i)
                 /\ prediction' = net[i].data
        \/ /\ Stage = "Submitting" /\ Stage' = "Editing"
           /\ \E i \in DOMAIN net :
                 /\ net[i].op = "predict" /\ net[i].status = "fail"
                 /\ HandleSubmitResume(i)
        \/ /\ Stage = "Result" /\ Stage' = "Editing"
           /\ MakeAnotherPrediction]_vars

C5_Witness ==
    /\ Stage = "Editing"
    /\ toast.title = "Success"
    /\ net = <<>>

\* C6 (as claimed): "Make Another Prediction" returns the workflow to
\* Editing with every form field reset to its initial value.
C6_AnotherPredictionBlanksForm ==
    [][MakeAnotherPrediction =>
        (Stage' = "Editing" /\ formData' = InitialFormData)]_vars

\* C7: when a submission fails the workflow is back in Editing with every
\* field as it was, no result is stored and the notification carries the
\* failure detail (the generic text when the failure has none).
C7_FailureKeepsForm ==
    [][\A i \in DOMAIN net :
        (net[i].op = "predict" /\ net[i].status = "fail" /\ HandleSubmitResume(i))
        => /\ Stage' = "Editing"
           /\ formData' = formData
           /\ prediction' = Null
           /\ toast'.title = "Error"
           /\ toast'.variant = "destructive"
           /\ toast'.description =
                 IF net[i].data.detail # NullStr THEN net[i].data.detail
                 ELSE "Failed to generate prediction"]_vars

C7_Witness ==
    /\ toast = Toast("Error", "Invalid input data", "destructive")
    /\ Stage = "Editing"
    /\ RequiredPresent
    /\ LivePredicts = {}

\* C8: a blank ph_level (organic_carbon) is transmitted as null, never as 0
\* or NaN; a non-blank one is transmitted as the number it parses to.
C8_BlankNumericIsNull ==
    [][HandleSubmit =>
        LET soil == net'[Len(net')].arg.soil_inputs
        IN  /\ formData.ph_level = "" => soil.ph_level = Null
            /\ formData.ph_level # "" =>
                  /\ soil.ph_level = parseFloat(formData.ph_level)
                  /\ soil.ph_level # NaN
            /\ formData.organic_carbon = "" => soil.organic_carbon = Null
            /\ formData.organic_carbon # "" =>
                  /\ soil.organic_carbon = parseFloat(formData.organic_carbon)
                  /\ soil.organic_carbon # NaN]_vars

C8_Witness ==
    \E i \in DOMAIN net :
        /\ net[i].op = "predict"
        /\ net[i].arg.soil_inputs.ph_level = Null
        /\ net[i].arg.soil_inputs.organic_carbon = Num(75)

\* ------------------------------------------- the state -> district cascade
\* The inputs tried on the two cascading selects.
CascadeInputs(field) ==
    CASE field = "state" -> {"Odisha", "Bihar"}
      [] field = "district" -> {"Puri", "Patna"}
CascadeFields == {"state", "district"}

EditCascade ==
    \E field \in CascadeFields : \E value \in CascadeInputs(field) :
        HandleInputChange(field, value)

NextCascade ==
    \/ EditCascade
    \/ RespondAny
    \/ DistrictsDone

SpecCascade == InitPredict /\ [][NextCascade]_vars

DistrictFetches == {i \in DOMAIN net : net[i].op = "districts"}

\* C1 (as claimed): once every district fetch has settled, none of them
\* having failed, the visible district list is the one returned for the
\* state selected last.
C1_SettledListIsOfSelectedState ==
    (DistrictFetches = {} /\ formData.state # "" /\ toast = NoToast) =>
        districts = DistrictsOf(formData.state)

\* C2 (as claimed): a change of the selected state invalidates the selected
\* district.
C2_StateChangeClearsDistrict ==
    [][formData'.state # formData.state => formData'.district = ""]_vars

\* ------------------------------------------------ AuthProvider, LoginForm
NoArg == [none |-> TRUE]
AuthOps == {"login", "register"}
\* Requests issued by the components MainApp renders under the navigation.
MainOps ==
    {"my-predictions", "states", "crops", "soil-types", "districts",
     "predict", "weather", "chat"}

\* MainApp shows LoginForm when the session is resolved without a user.
LoginShown == ~authLoading /\ user = Null

\* The requests of n issued by components that are being unmounted lose
\* their component: its setters no longer change anything.
Orphan(n, ops) ==
    [k \in DOMAIN n |->
        IF n[k].op \in ops THEN [n[k] EXCEPT !.live = FALSE] ELSE n[k]]

\* The requests the component of a tab issues from its mount effect; the
\* weather is asked for Delhi (ten-thousandths of a degree).
MountRequests(tab, auth) ==
    CASE tab = "dashboard" -> <<Request("my-predictions", auth, NoArg)>>
      [] tab = "predict" ->
            <<Request("states", auth, NoArg), Request("crops", auth, NoArg),
              Request("soil-types", auth, NoArg)>>
      [] tab = "weather" ->
            <<Request("weather", auth, [lat |-> 286139, lon |-> 772090])>>
      [] tab = "chat" -> <<>>

Tabs == {"dashboard", "predict", "weather", "chat"}

\* onClick of a navigation item: setActiveTab(item.id).  The component of
\* the tab left is unmounted, with its state, and the one of the new tab
\* mounts with the initial state and runs its mount effect.
SwitchTabWithin(tab, room) ==
    /\ MainShown
    /\ tab \in Tabs
    /\ tab # activeTab
    /\ Len(net) + Len(MountRequests(tab, header)) <= room
    /\ activeTab' = tab
    /\ net' = Orphan(net, MainOps) \o MountRequests(tab, header)
    /\ predictions' = <<>> /\ dashLoading' = TRUE
    /\ formData' = InitialFormData
    /\ states' = <<>> /\ districts' = <<>> /\ crops' = <<>> /\ soilTypes' = <<>>
    /\ loading' = FALSE /\ prediction' = Null
    /\ weatherData' = Null /\ weatherLoading' = (tab = "weather")
    /\ messages' = InitialMessages /\ newMessage' = <<>>
    /\ selectedLanguage' = "en" /\ chatLoading' = FALSE
    /\ UNCHANGED <<authVars, loginVars, toast>>

SwitchTab(tab) == SwitchTabWithin(tab, MaxInFlight)

\* onClick of the "Sign up" / "Login" switch.
ToggleMode ==
    /\ LoginShown
    /\ isLogin' = ~isLogin
    /\ UNCHANGED <<authVars, loginLoading, dashVars, activeTab, weatherVars, chatVars, formVars, net, toast>>

\* LoginForm.handleSubmit up to the await inside login / register; the
\* submit button is disabled while loading.
LoginSubmit ==
    /\ LoginShown
    /\ ~loginLoading
    /\ Len(net) < MaxAuthInFlight
    /\ loginLoading' = TRUE
    /\ net' = Append(net, Request(IF isLogin THEN "login" ELSE "register",
                                  header, NoArg))
    /\ UNCHANGED <<authVars, isLogin, dashVars, activeTab, weatherVars, chatVars, formVars, toast>>

\* login / register after the await and the rest of LoginForm.handleSubmit,
\* with the effect on [token] that the re-render runs: a changed token is
\* put in the header and fetchUser() is called.
LoginResume_NoPersist(i) ==
    /\ i \in DOMAIN net
    /\ net[i].op \in AuthOps
    /\ net[i].status # "pending"
    /\ IF net[i].status = "ok"
       THEN LET access_token == net[i].data.access_token
            IN  /\ storage' = storage
                /\ token' = access_token
                /\ header' = access_token
                /\ net' = IF access_token # token
                          THEN Append(RemoveAt(net, i),
                                      Request("me", access_token, NoArg))
                          ELSE RemoveAt(net, i)
                /\ toast' = Toast("Success",
                                  IF net[i].op = "login"
                                  THEN "Logged in successfully!"
                                  ELSE "Account created successfully!",
                                  "default")
       ELSE /\ UNCHANGED <<storage, token, header>>
            /\ net' = RemoveAt(net, i)
            /\ toast' = Toast("Error",
                              OrElse(net[i].data.detail, "An error occurred"),
                              "destructive")
    /\ loginLoading' = IF net[i].live THEN FALSE ELSE loginLoading
    /\ UNCHANGED <<user, authLoading, isLogin, dashVars, activeTab, weatherVars, chatVars, formVars>>

LoginResume_SetsUser(i) ==
    /\ i \in DOMAIN net
    /\ net[i].op \in AuthOps
    /\ net[i].status # "pending"
    /\ IF net[i].status = "ok"
       THEN LET access_token == net[i].data.access_token
            IN  /\ storage' = access_token
                /\ token' = access_token
                /\ header' = access_token
                /\ user' = net[i].data.user
                /\ net' = IF access_token # token
                          THEN Append(RemoveAt(net, i),
                                      Request("me", access_token, NoArg))
                          ELSE RemoveAt(net, i)
                /\ toast' = Toast("Success",
                                  IF net[i].op = "login"
                                  THEN "Logged in successfully!"
                                  ELSE "Account created successfully!",
                                  "default")
       ELSE /\ UNCHANGED <<storage, token, header, user>>
            /\ net' = RemoveAt(net, i)
            /\ toast' = Toast("Error",
                              OrElse(net[i].data.detail, "An error occurred"),
                              "destructive")
    /\ loginLoading' = IF net[i].live THEN FALSE ELSE loginLoading
    /\ UNCHANGED <<authLoading, isLogin, dashVars, activeTab, weatherVars, chatVars, formVars>>

LoginResume_FailureClearsToken(i) ==
    /\ i \in DOMAIN net
    /\ net[i].op \in AuthOps
    /\ net[i].status # "pending"
    /\ IF net[i].status = "ok"
       THEN LET access_token == net[i].data.access_token
            IN  /\ storage' = access_token
                /\ token' = access_token
                /\ header' = access_token
                /\ net' = IF access_token # token
                          THEN Append(RemoveAt(net, i),
                                      Request("me", access_token, NoArg))
                          ELSE RemoveAt(net, i)
                /\ toast' = Toast("Success",
                                  IF net[i].op = "login"
                                  THEN "Logged in successfully!"
                                  ELSE "Account created successfully!",
                                  "default")
       ELSE /\ storage' = NullStr
            /\ token' = NullStr
            /\ header' = NullStr
            /\ net' = RemoveAt(net, i)
            /\ toast' = Toast("Error",
                              OrElse(net[i].data.detail, "An error occurred"),
                              "destructive")
    /\ loginLoading' = IF net[i].live THEN FALSE ELSE loginLoading
    /\ UNCHANGED <<user, authLoading, isLogin, dashVars, activeTab, weatherVars, chatVars, formVars>>

LoginResume_AlwaysFetches(i) ==
    /\ i \in DOMAIN net
    /\ net[i].op \in AuthOps
    /\ net[i].status # "pending"
    /\ IF net[i].status = "ok"
       THEN LET access_token == net[i].data.access_token
            IN  /\ storage' = access_token
                /\ token' = access_token
                /\ header' = access_token
                /\ net' = Append(RemoveAt(net, i),
                                 Request("me", access_token, NoArg))
                /\ toast' = Toast("Success",
                                  IF net[i].op = "login"
                                  THEN "Logged in successfully!"
                                  ELSE "Account created successfully!",
                                  "default")
       ELSE /\ UNCHANGED <<storage, token, header>>
            /\ net' = RemoveAt(net, i)
            /\ toast' = Toast("Error",
                              OrElse(net[i].data.detail, "An error occurred"),
                              "destructive")
    /\ loginLoading' = IF net[i].live THEN FALSE ELSE loginLoading
    /\ UNCHANGED <<user, authLoading, isLogin, dashVars, activeTab, weatherVars, chatVars, formVars>>

LoginResume_MountsViews(i) ==
    /\ i \in DOMAIN net
    /\ net[i].op \in AuthOps
    /\ net[i].status # "pending"
    /\ IF net[i].status = "ok"
       THEN LET access_token == net[i].data.access_token
            IN  /\ storage' = access_token
                /\ token' = access_token
                /\ header' = access_token
                /\ net' = IF access_token # token
                          THEN Append(RemoveAt(net, i),
                                      Request("me", access_token, NoArg))
                               \o MountRequests(activeTab, access_token)
                          ELSE RemoveAt(net, i)
                /\ toast' = Toast("Success",
                                  IF net[i].op = "login"
                                  THEN "Logged in successfully!"
                                  ELSE "Account created successfully!",
                                  "default")
       ELSE /\ UNCHANGED <<storage, token, header>>
            /\ net' = RemoveAt(net, i)
            /\ toast' = Toast("Error",
                              OrElse(net[i].data.detail, "An error occurred"),
                              "destructive")
    /\ loginLoading' = IF net[i].live THEN FALSE ELSE loginLoading
    /\ UNCHANGED <<user, authLoading, isLogin, dashVars, activeTab, weatherVars, chatVars, formVars>>

LoginResume_Resolving(i) ==
    /\ i \in DOMAIN net
    /\ net[i].op \in AuthOps
    /\ net[i].status # "pending"
    /\ IF net[i].status = "ok"
       THEN LET access_token == net[i].data.access_token
            IN  /\ storage' = access_token
                /\ token' = access_token
                /\ header' = access_token
                /\ net' = IF access_token # token
                          THEN Append(RemoveAt(net, i),
                                      Request("me", access_token, NoArg))
                          ELSE RemoveAt(net, i)
                /\ authLoading' = (access_token # token)
                /\ toast' = Toast("Success",
                                  IF net[i].op = "login"
                                  THEN "Logged in successfully!"
                                  ELSE "Account created successfully!",
                                  "default")
       ELSE /\ UNCHANGED <<storage, token, header, authLoading>>
            /\ net' = RemoveAt(net, i)
            /\ toast' = Toast("Error",
                              OrElse(net[i].data.detail, "An error occurred"),
                              "destructive")
    /\ loginLoading' = IF net[i].live THEN FALSE ELSE loginLoading
    /\ UNCHANGED <<user, isLogin, dashVars, activeTab, weatherVars, chatVars, formVars>>

LoginResume(i) ==
    /\ i \in DOMAIN net
    /\ net[i].op \in AuthOps
    /\ net[i].status # "pending"
    /\ IF net[i].status = "ok"
       THEN LET access_token == net[i].data.access_token
            IN  /\ storage' = access_token
                /\ token' = access_token
                /\ header' = access_token
                /\ net' = IF access_token # token
                          THEN Append(RemoveAt(net, i),
                                      Request("me", access_token, NoArg))
                          ELSE RemoveAt(net, i)
                /\ toast' = Toast("Success",
                                  IF net[i].op = "login"
                                  THEN "Logged in successfully!"
                                  ELSE "Account created successfully!",
                                  "default")
       ELSE /\ UNCHANGED <<storage, token, header>>
            /\ net' = RemoveAt(net, i)
            /\ toast' = Toast("Error",
                              OrElse(net[i].data.detail, "An error occurred"),
                              "destructive")
    /\ loginLoading' = IF net[i].live THEN FALSE ELSE loginLoading
    /\ UNCHANGED <<user, authLoading, isLogin, dashVars, activeTab, weatherVars, chatVars, formVars>>

\* fetchUser after its await.  When the user appears MainApp replaces
\* LoginForm (or the loading screen) by the protected layout, whose
\* component for activeTab mounts and issues its requests.
FetchUserResume_KeepsStorage(i) ==
    /\ i \in DOMAIN net
    /\ net[i].op = "me"
    /\ net[i].status # "pending"
    /\ IF net[i].status = "ok"
       THEN /\ user' = net[i].data
            /\ UNCHANGED <<storage, token, header>>
       ELSE /\ user' = user
            /\ storage' = storage
            /\ token' = NullStr
            /\ header' = NullStr
    /\ authLoading' = FALSE
    /\ IF ~MainShown /\ user' # Null
       THEN /\ net' = Orphan(RemoveAt(net, i), AuthOps)
                      \o MountRequests(activeTab, header')
            /\ weatherLoading' = (activeTab = "weather")
            /\ isLogin' = TRUE
            /\ loginLoading' = FALSE
       ELSE /\ net' = RemoveAt(net, i)
            /\ UNCHANGED <<isLogin, loginLoading, weatherLoading>>
    /\ UNCHANGED <<dashVars, activeTab, weatherData, chatVars, formVars, toast>>

FetchUserResume_KeepsToken(i) ==
    /\ i \in DOMAIN net
    /\ net[i].op = "me"
    /\ net[i].status # "pending"
    /\ IF net[i].status = "ok"
       THEN /\ user' = net[i].data
            /\ UNCHANGED <<storage, token, header>>
       ELSE /\ user' = user
            /\ storage' = NullStr
            /\ token' = token
            /\ header' = NullStr
    /\ authLoading' = FALSE
    /\ IF ~MainShown /\ user' # Null
       THEN /\ net' = Orphan(RemoveAt(net, i), AuthOps)
                      \o MountRequests(activeTab, header')
            /\ weatherLoading' = (activeTab = "weather")
            /\ isLogin' = TRUE
            /\ loginLoading' = FALSE
       ELSE /\ net' = RemoveAt(net, i)
            /\ UNCHANGED <<isLogin, loginLoading, weatherLoading>>
    /\ UNCHANGED <<dashVars, activeTab, weatherData, chatVars, formVars, toast>>

FetchUserResume(i) ==
    /\ i \in DOMAIN net
    /\ net[i].op = "me"
    /\ net[i].status # "pending"
    /\ IF net[i].status = "ok"
       THEN /\ user' = net[i].data
            /\ UNCHANGED <<storage, token, header>>
       ELSE /\ user' = user
            /\ storage' = NullStr
            /\ token' = NullStr
            /\ header' = NullStr
    /\ authLoading' = FALSE
    /\ IF ~MainShown /\ user' # Null
       THEN /\ net' = Orphan(RemoveAt(net, i), AuthOps)
                      \o MountRequests(activeTab, header')
            /\ weatherLoading' = (activeTab = "weather")
            /\ isLogin' = TRUE
            /\ loginLoading' = FALSE
       ELSE /\ net' = RemoveAt(net, i)
            /\ UNCHANGED <<isLogin, loginLoading, weatherLoading>>
    /\ UNCHANGED <<dashVars, activeTab, weatherData, chatVars, formVars, toast>>

\* Dashboard.fetchPredictions after its await.
FetchPredictionsResume(i) ==
    /\ i \in DOMAIN net
    /\ net[i].op = "my-predictions"
    /\ net[i].status # "pending"
    /\ net' = RemoveAt(net, i)
    /\ IF net[i].status = "ok"
       THEN /\ predictions' = IF net[i].live THEN net[i].data.predictions
                              ELSE predictions
            /\ toast' = toast
       ELSE /\ predictions' = predictions
            /\ toast' = Toast("Error", "Failed to fetch predictions",
                              "destructive")
    /\ dashLoading' = IF net[i].live THEN FALSE ELSE dashLoading
    /\ UNCHANGED <<authVars, loginVars, activeTab, weatherVars, chatVars, formVars>>

\* logout, from the Logout button of Navigation.  The protected layout is
\* unmounted: the state of its components is gone (a later mount starts
\* from the initial values) and LoginForm mounts.
Logout_KeepsHeader ==
    /\ MainShown
    /\ storage' = NullStr
    /\ token' = NullStr
    /\ user' = Null
    /\ header' = header
    /\ authLoading' = FALSE
    /\ net' = Orphan(net, MainOps)
    /\ predictions' = <<>> /\ dashLoading' = TRUE
    /\ formData' = InitialFormData
    /\ states' = <<>> /\ districts' = <<>> /\ crops' = <<>> /\ soilTypes' = <<>>
    /\ loading' = FALSE /\ prediction' = Null
    /\ weatherData' = Null /\ weatherLoading' = FALSE
    /\ messages' = InitialMessages /\ newMessage' = <<>>
    /\ selectedLanguage' = "en" /\ chatLoading' = FALSE
    /\ UNCHANGED <<loginVars, activeTab, toast>>

Logout ==
    /\ MainShown
    /\ storage' = NullStr
    /\ token' = NullStr
    /\ user' = Null
    /\ header' = NullStr
    /\ authLoading' = FALSE
    /\ net' = Orphan(net, MainOps)
    /\ predictions' = <<>> /\ dashLoading' = TRUE
    /\ formData' = InitialFormData
    /\ states' = <<>> /\ districts' = <<>> /\ crops' = <<>> /\ soilTypes' = <<>>
    /\ loading' = FALSE /\ prediction' = Null
    /\ weatherData' = Null /\ weatherLoading' = FALSE
    /\ messages' = InitialMessages /\ newMessage' = <<>>
    /\ selectedLanguage' = "en" /\ chatLoading' = FALSE
    /\ UNCHANGED <<loginVars, activeTab, toast>>

\* ------------------------------------------------------------ the session
\* AuthProvider after its first render and effect: the persisted token, if
\* any, is in the header and fetchUser() is under way.
InitAuth ==
    /\ storage \in {NullStr, "T1"}
    /\ token = storage
    /\ user = Null
    /\ header = token
    /\ authLoading = (token # NullStr)
    /\ net = IF token # NullStr THEN <<Request("me", token, NoArg)>> ELSE <<>>
    /\ isLogin = TRUE /\ loginLoading = FALSE
    /\ activeTab = "dashboard"
    /\ predictions = <<>> /\ dashLoading = TRUE
    /\ formData = InitialFormData
    /\ states = <<>> /\ districts = <<>> /\ crops = <<>> /\ soilTypes = <<>>
    /\ loading = FALSE /\ prediction = Null
    /\ weatherData = Null /\ weatherLoading = FALSE
    /\ messages = InitialMessages /\ newMessage = <<>>
    /\ selectedLanguage = "en" /\ chatLoading = FALSE
    /\ toast = NoToast

LoginDone == \E i \in DOMAIN net : LoginResume(i)
FetchUserDone == \E i \in DOMAIN net : FetchUserResume(i)
FetchPredictionsDone == \E i \in DOMAIN net : FetchPredictionsResume(i)

NextAuth ==
    \/ ToggleMode
    \/ LoginSubmit
    \/ RespondAny
    \/ LoginDone
    \/ FetchUserDone
    \/ FetchPredictionsDone
    \/ Logout

SpecAuth == InitAuth /\ [][NextAuth]_vars

\* ------------------------------------------------------ the whole session
\* The required fields of the prediction form, in the order in which the
\* session fills them, and the value given to each.
SessionFields ==
    <<"state", "crop_name", "season", "soil_type", "irrigation_source",
      "irrigation_frequency", "farm_size">>
SessionInput(field) ==
    CASE field = "state" -> "Odisha"
      [] field = "crop_name" -> "Rice"
      [] field = "season" -> "Kharif"
      [] field = "soil_type" -> "Alluvial"
      [] field = "irrigation_source" -> "Canal"
      [] field = "irrigation_frequency" -> "Regularly"
      [] field = "farm_size" -> <<"2", ".", "5">>
EditSession ==
    \E k \in DOMAIN SessionFields :
        /\ \A j \in 1..(k - 1) : Len(formData[SessionFields[j]]) # 0
        /\ Len(formData[SessionFields[k]]) = 0
        /\ HandleInputChange(SessionFields[k], SessionInput(SessionFields[k]))

\* The text typed in the chat.
SessionTexts == {<<"h", "i", " ">>}

\* The session moves to another tab once the requests of the tabs it left
\* earlier have settled, and submits credentials or logs out when nothing
\* is in flight.
Navigate ==
    \E tab \in Tabs : (\A k \in DOMAIN net : net[k].live) /\ SwitchTab(tab)
SessionLogin == net = <<>> /\ LoginSubmit
SessionLogout == net = <<>> /\ Logout
TypeMessage == \E text \in SessionTexts : ChangeMessage(text)
StatesDone == \E i \in DOMAIN net : FetchStatesResume(i)
CropsDone == \E i \in DOMAIN net : FetchCropsResume(i)
SoilTypesDone == \E i \in DOMAIN net : FetchSoilTypesResume(i)
WeatherDone == \E i \in DOMAIN net : FetchWeatherResume(i)
ChatDone == \E i \in DOMAIN net : SendMessageResume(i)

NextSession ==
    \/ ToggleMode
    \/ SessionLogin
    \/ RespondAny
    \/ LoginDone
    \/ FetchUserDone
    \/ FetchPredictionsDone
    \/ SessionLogout
    \/ Navigate
    \/ StatesDone
    \/ CropsDone
    \/ SoilTypesDone
    \/ DistrictsDone
    \/ EditSession
    \/ HandleSubmit
    \/ SubmitDone
    \/ MakeAnotherPrediction
    \/ WeatherDone
    \/ TypeMessage
    \/ SendMessage
    \/ ChatDone

SpecSession == InitAuth /\ [][NextSession]_vars

\* --------------------------------------------------- properties, SpecAuth
\* A login or register response with a token is handled in this step.
LoginSucceeds(i) ==
    /\ i \in DOMAIN net
    /\ net[i].op \in AuthOps
    /\ net[i].status = "ok"
    /\ LoginResume(i)

\* The profile fetch at position i fails and is handled in this step.
FetchUserFails(i) ==
    /\ i \in DOMAIN net
    /\ net[i].op = "me"
    /\ net[i].status = "fail"
    /\ FetchUserResume(i)

\* The requests a step sends: a step appends them to net, after removing
\* the answered request whose continuation it runs, if it runs one.
Answered(n) == {k \in DOMAIN n : n[k].status # "pending"}
NewlyIssued ==
    LET kept == IF Cardinality(Answered(net')) < Cardinality(Answered(net))
                THEN Len(net) - 1 ELSE Len(net)
    IN  {j \in DOMAIN net' : j > kept}

\* C9: when login or register succeeds the returned token is written to
\* storage and becomes the credential; every request sent carries the
\* credential of the moment, and the credential stays until the next
\* successful login or register, logout or failed profile fetch - so the
\* next request sent after the success carries the returned token.
C9_TokenPersistedAndAttached ==
    [][/\ \A i \in DOMAIN net :
            LoginSucceeds(i) =>
                /\ storage' = net[i].data.access_token
                /\ header' = net[i].data.access_token
                /\ \A j \in NewlyIssued :
                      net'[j].auth = net[i].data.access_token
       /\ \A j \in NewlyIssued : net'[j].auth = header'
       /\ header' # header =>
            \/ \E i \in DOMAIN net : LoginSucceeds(i)
            \/ \E i \in DOMAIN net : FetchUserFails(i)
            \/ Logout]_vars

C9_Witness ==
    /\ toast.title = "Success"
    /\ storage = "T2"
    /\ \E i \in DOMAIN net : net[i].op = "me" /\ net[i].auth = "T2"

C11_AuthenticatedIffTokenAndUser ==
    /\ MainShown <=> (token # NullStr /\ user # Null)
    /\ user # Null => token # NullStr

\* C12 (as claimed): whenever a profile fetch fails, token and user become
\* absent, the persisted credential is removed and the login form is shown.
C12_FailedFetchClearsSession ==
    [][\A i \in DOMAIN net :
        FetchUserFails(i) =>
            /\ token' = NullStr
            /\ user' = Null
            /\ storage' = NullStr
            /\ LoginShown']_vars

\* A failed login or register response is handled in this step.
LoginFails(i) ==
    /\ i \in DOMAIN net
    /\ net[i].op \in AuthOps
    /\ net[i].status = "fail"
    /\ LoginResume(i)

\* C13: a failed login or register leaves token, user, persisted credential
\* and Authorization header as they were - when it is submitted and when
\* its failure is handled -, raises a notification with the failure detail
\* (the generic text when there is none) and sends no request again.
C13_FailedLoginChangesNothing ==
    [][/\ LoginSubmit => UNCHANGED <<token, user, storage, header>>
       /\ \A i \in DOMAIN net :
            LoginFails(i) =>
                /\ UNCHANGED <<token, user, storage, header>>
                /\ toast'.title = "Error"
                /\ toast'.variant = "destructive"
                /\ toast'.description =
                      IF net[i].data.detail # NullStr THEN net[i].data.detail
                      ELSE "An error occurred"
                /\ NewlyIssued = {}]_vars

C13_Witness ==
    /\ toast = Toast("Error", "Invalid credentials", "destructive")
    /\ LoginShown
    /\ ~loginLoading
    /\ token = "T1"

\* C14: logout is one step that sends no request and leaves token, user,
\* persisted credential and Authorization header absent.
C14_LogoutClearsSession ==
    [][Logout =>
        /\ token' = NullStr
        /\ user' = Null
        /\ storage' = NullStr
        /\ header' = NullStr
        /\ NewlyIssued = {}
        /\ Len(net') = Len(net)]_vars

C14_Witness ==
    /\ LoginShown
    /\ header = NullStr
    /\ \E i \in DOMAIN net : net[i].op = "my-predictions" /\ ~net[i].live

\* C15 (as claimed): once the login form is shown without a credential,
\* the credential is only established by a login or register submitted
\* from that form - never by the completion of a request of an earlier
\* form, in flight when logout ran.
C15_NoCredentialFromStaleCompletion ==
    [][(LoginShown /\ token = NullStr /\
        (token' # NullStr \/ header' # NullStr \/ storage' # NullStr)) =>
            \E i \in DOMAIN net : net[i].live /\ LoginSucceeds(i)]_vars

\* C16: when the profile fetch of startup fails, the persisted credential
\* and the Authorization header are removed, loading ends and the login
\* form is shown.
C16_StartupFailureShowsLogin ==
    [][\A i \in DOMAIN net :
        (authLoading /\ FetchUserFails(i)) =>
            /\ storage' = NullStr
            /\ header' = NullStr
            /\ token' = NullStr
            /\ ~authLoading'
            /\ LoginShown']_vars

C16_Witness ==
    /\ authLoading
    /\ storage = "T1"
    /\ \E i \in DOMAIN net : net[i].op = "me" /\ net[i].status = "fail"

C18_StaleFetchChangesNothing ==
    [][\A i \in DOMAIN net :
        (net[i].op = "me" /\ token # NullStr /\ net[i].auth # token
         /\ FetchUserResume(i))
        => UNCHANGED <<token, storage, header, user>>]_vars

\* ------------------------------------------------ properties, SpecSession
\* The request at position i, issued by a component of the protected
\* layout, has failed and its continuation runs in this step.
MainFails(i) ==
    /\ i \in DOMAIN net
    /\ net[i].op \in MainOps
    /\ net[i].status = "fail"
    /\ \/ FetchPredictionsResume(i)
       \/ FetchStatesResume(i)
       \/ FetchDistrictsResume(i)
       \/ FetchCropsResume(i)
       \/ FetchSoilTypesResume(i)
       \/ HandleSubmitResume(i)
       \/ FetchWeatherResume(i)
       \/ SendMessageResume(i)

\* C19: the failure of a request other than the profile fetch - its arrival
\* and the continuation that handles it - leaves token, user, the persisted
\* credential and the Authorization header as they are.
C19_FailureKeepsCredential ==
    [][\A i \in DOMAIN net :
          (\/ net[i].op \in MainOps /\ ServerRespond(i)
           \/ MainFails(i))
          => UNCHANGED <<token, user, storage, header>>]_vars

\* C19 witness: the assistant's request has failed in an authenticated
\* session, which still holds its credential.
C19_Witness ==
    /\ toast = Toast("Error", "Failed to get response from assistant",
                     "destructive")
    /\ ChatShown /\ ~chatLoading
    /\ token = "T1" /\ storage = "T1" /\ header = "T1" /\ user = Profile

PostOps == {"login", "register", "predict", "chat"}

\* C20: a submission of the login form, of the prediction form or of a chat
\* message sends exactly one POST request, and no other step sends one: in
\* particular the continuation of a failed request sends nothing.
C20_OnePostPerSubmission ==
    [][/\ LoginSubmit =>
            /\ Cardinality(NewlyIssued) = 1
            /\ \A j \in NewlyIssued :
                  net'[j].op = IF isLogin THEN "login" ELSE "register"
       /\ HandleSubmit =>
            /\ Cardinality(NewlyIssued) = 1
            /\ \A j \in NewlyIssued : net'[j].op = "predict"
       /\ SendMessage =>
            /\ Cardinality(NewlyIssued) = 1
            /\ \A j \in NewlyIssued : net'[j].op = "chat"
       /\ (\E j \in NewlyIssued : net'[j].op \in PostOps) =>
            (LoginSubmit \/ HandleSubmit \/ SendMessage)]_vars

\* C20 witness: a prediction request has failed, its failure has been
\* handled and nothing is in flight.
C20_Witness ==
    /\ toast = Toast("Error", "Invalid input data", "destructive")
    /\ FormShown /\ ~loading /\ ~SubmitDisabled
    /\ net = <<>>

\* The component of the Predict tab is mounted.
PredictMounted == MainShown /\ activeTab = "predict"

\* The reference lists, the requests that load them and what they answer.
ReferenceOps == {"states", "crops", "soil-types"}
ReferenceList(op) ==
    CASE op = "states" -> states
      [] op = "crops" -> crops
      [] op = "soil-types" -> soilTypes
ReferenceListAfter(op) ==
    CASE op = "states" -> states'
      [] op = "crops" -> crops'
      [] op = "soil-types" -> soilTypes'
ReferenceResponse(op) ==
    CASE op = "states" -> StateList
      [] op = "crops" -> CropList
      [] op = "soil-types" -> SoilTypeList
ReferenceFailure(op) ==
    CASE op = "states" -> "Failed to fetch states"
      [] op = "crops" -> "Failed to fetch crops"
      [] op = "soil-types" -> "Failed to fetch soil types"
ReferenceResume(i) ==
    FetchStatesResume(i) \/ FetchCropsResume(i) \/ FetchSoilTypesResume(i)
LiveLoads == {net[k].op : k \in {j \in DOMAIN net : net[j].live}} \cap ReferenceOps

\* C21: the three loads are issued together when the form mounts; while a
\* load is in flight its list is empty, and a list is always empty or its
\* whole response; a load that succeeds sets its list to its response and
\* notifies nothing, one that fails leaves its list empty and notifies its
\* own failure; neither touches the other two lists or the other loads.
C21_IndependentLoads ==
    /\ [](PredictMounted =>
            \A op \in ReferenceOps :
                /\ op \in LiveLoads => ReferenceList(op) = <<>>
                /\ ReferenceList(op) \in {<<>>, ReferenceResponse(op)})
    /\ [][/\ (~PredictMounted /\ PredictMounted') =>
               {net'[j].op : j \in NewlyIssued} = ReferenceOps
          /\ \A i \in DOMAIN net :
               (net[i].op \in ReferenceOps /\ net[i].live /\ ReferenceResume(i)) =>
                  /\ IF net[i].status = "ok"
                     THEN /\ ReferenceListAfter(net[i].op) = ReferenceResponse(net[i].op)
                          /\ toast' = toast
                     ELSE /\ ReferenceListAfter(net[i].op) = <<>>
                          /\ toast' = Toast("Error", ReferenceFailure(net[i].op),
                                            "destructive")
                  /\ \A op \in ReferenceOps \ {net[i].op} :
                        ReferenceListAfter(op) = ReferenceList(op)
                  /\ net' = RemoveAt(net, i)]_vars

\* C21 witness: the loads of states and soil types succeeded and the load of
\* crops, the last to complete, failed.
C21_Witness ==
    /\ PredictMounted
    /\ LiveLoads = {}
    /\ states = StateList /\ crops = <<>> /\ soilTypes = SoilTypeList
    /\ toast = Toast("Error", "Failed to fetch crops", "destructive")

\* ---------------------------------------------- the form left and re-entered
\* The Predict tab is open with its lists loaded; the user works the two
\* cascading selects, logs out and logs in again, which mounts the form anew
\* while requests of the earlier form may still be in flight.
ReturnInputs(field) ==
    CASE field = "state" -> {"Odisha"}
      [] field = "district" -> {"Puri"}
EditReturn ==
    \E field \in CascadeFields : \E value \in ReturnInputs(field) :
        HandleInputChange(field, value)
\* Credentials are submitted while no login or profile fetch is in flight.
ReturnLogin == (\A k \in DOMAIN net : net[k].op \in MainOps) /\ LoginSubmit

NextReturn ==
    \/ EditReturn
    \/ RespondAny
    \/ DistrictsDone
    \/ StatesDone
    \/ CropsDone
    \/ SoilTypesDone
    \/ Logout
    \/ ReturnLogin
    \/ LoginDone
    \/ FetchUserDone

SpecReturn == InitPredict /\ [][NextReturn]_vars

\* C22: while the form is mounted with no state selected, the district list
\* and the selected district are empty, and no step sends a district fetch
\* for an empty state.
C22_EmptyStateHasNoDistricts ==
    /\ [](PredictMounted /\ Len(formData.state) = 0 =>
            Len(districts) = 0 /\ Len(formData.district) = 0)
    /\ [][\A j \in NewlyIssued :
             net'[j].op = "districts" => Len(net'[j].arg.state) # 0]_vars

\* C22 witness: the form has been mounted anew, its states are loaded and
\* none is selected, and the district list asked for by the earlier form
\* has arrived.
C22_Witness ==
    /\ PredictMounted
    /\ Len(formData.state) = 0
    /\ states = StateList
    /\ \E i \in DOMAIN net :
          net[i].op = "districts" /\ ~net[i].live /\ net[i].status = "ok"

\* ---------------------------------------------------------------- the chat
\* An authenticated session with the Assistant tab open.
InitChat ==
    /\ user = Profile /\ token = "T1" /\ storage = "T1" /\ header = "T1"
    /\ authLoading = FALSE
    /\ isLogin = TRUE /\ loginLoading = FALSE
    /\ activeTab = "chat"
    /\ predictions = <<>> /\ dashLoading = TRUE
    /\ formData = InitialFormData
    /\ states = <<>> /\ districts = <<>> /\ crops = <<>> /\ soilTypes = <<>>
    /\ loading = FALSE /\ prediction = Null
    /\ weatherData = Null /\ weatherLoading = FALSE
    /\ messages = InitialMessages /\ newMessage = <<>>
    /\ selectedLanguage = "en" /\ chatLoading = FALSE
    /\ net = <<>> /\ toast = NoToast

\* The texts typed, the languages chosen and the tabs visited in the chat.
ChatTexts == {<<" ">>, <<"h", "i", " ">>}
ChatLanguages == {"en", "hi"}
ChatTabs == {"dashboard", "chat"}

TypeChat == \E text \in ChatTexts : ChangeMessage(text)
QuickQuestionClick == AskQuickQuestion(QuickQuestion)
ChooseLanguage ==
    \E language \in ChatLanguages : SetSelectedLanguage(language)
\* The chat is left once the requests of an earlier visit have settled, and
\* entered again once those of the tab visited meanwhile have.
ChatNavigate ==
    \E tab \in ChatTabs :
        /\ tab = "chat" => \A k \in DOMAIN net : net[k].op = "chat"
        /\ tab # "chat" => \A k \in DOMAIN net : net[k].live
        /\ SwitchTab(tab)

NextChat ==
    \/ TypeChat
    \/ QuickQuestionClick
    \/ ChooseLanguage
    \/ SendMessage
    \/ RespondAny
    \/ ChatDone
    \/ ChatNavigate
    \/ FetchPredictionsDone

SpecChat == InitChat /\ [][NextChat]_vars

\* --------------------------------------------------- properties, SpecChat
\* The chat requests still awaiting their response.
OutstandingChats ==
    {i \in DOMAIN net : net[i].op = "chat" /\ net[i].status = "pending"}

\* The chat request at position i has been answered and sendMessage resumes.
ChatSettles(i) ==
    /\ i \in DOMAIN net
    /\ net[i].op = "chat"
    /\ SendMessageResume(i)

\* The user turn sendMessage appended for the request r.
userMessage(r) ==
    [type |-> "user", content |-> r.arg.message, language |-> r.arg.language]

\* C23 (as claimed): a send is accepted only when the pending text does not
\* trim to nothing and no chat request is outstanding, so that at most one
\* chat request is outstanding at any time.
C23_OneChatRequestOutstanding ==
    /\ [](Cardinality(OutstandingChats) <= 1)
    /\ [][SendMessage =>
             /\ Len(trim(newMessage)) # 0
             /\ OutstandingChats = {}]_vars

\* C24 (as claimed): an accepted send appends the user turn before the
\* request resolves; a success appends exactly one assistant turn with the
\* response text and the recommendations, if any; a failure appends nothing,
\* notifies, and the user turn is still in the transcript.
C24_TurnsFollowRequest ==
    [][/\ SendMessage =>
            messages' = Append(messages,
                               [type |-> "user", content |-> newMessage,
                                language |-> selectedLanguage])
       /\ \A i \in DOMAIN net : ChatSettles(i) =>
            IF net[i].status = "ok"
            THEN messages' = Append(messages, botMessage(net[i]))
            ELSE /\ messages' = messages
                 /\ toast' = Toast("Error",
                                   "Failed to get response from assistant",
                                   "destructive")
                 /\ \E k \in DOMAIN messages : messages[k] = userMessage(net[i])
      ]_vars

\* C25 (as claimed): the transcript only grows at its end, whatever the
\* step - a send, a completion, a change of language or a tab switch.
C25_TranscriptAppendOnly ==
    [][/\ Len(messages') >= Len(messages)
       /\ SubSeq(messages', 1, Len(messages)) = messages]_vars

\* C26 (as claimed): the transcript grows by one turn with each accepted
\* send and with each successful response, and by nothing else, so that its
\* turns number the accepted sends plus the successes.
C26_LengthIsSendsPlusSuccesses ==
    [][Len(messages') =
          IF SendMessage THEN Len(messages) + 1
          ELSE IF \E i \in DOMAIN net : ChatSettles(i) /\ net[i].status = "ok"
          THEN Len(messages) + 1
          ELSE Len(messages)]_vars

\* C27: a change of the language selector changes neither the transcript nor
\* a request in flight; no step changes the language of a turn that stays
\* in the transcript; a send tags its user turn and its request with the
\* language selected at that moment.
C27_LanguageAppliesToLaterSends ==
    [][/\ \A language \in Languages :
            SetSelectedLanguage(language) => messages' = messages /\ net' = net
       /\ \A k \in DOMAIN messages \cap DOMAIN messages' :
            messages'[k].language = messages[k].language
       /\ SendMessage =>
            /\ messages'[Len(messages')].language = selectedLanguage
            /\ \A j \in NewlyIssued : net'[j].arg.language = selectedLanguage
      ]_vars

\* C27 witness: the selector was changed to Hindi while the request of a turn
\* sent in English is outstanding; turn and request are still English.
C27_Witness ==
    /\ ChatShown /\ chatLoading
    /\ selectedLanguage = "hi"
    /\ messages[Len(messages)].type = "user"
    /\ messages[Len(messages)].language = "en"
    /\ \E i \in OutstandingChats : net[i].live /\ net[i].arg.language = "en"

\* C28: a click on a quick question sets the pending input to the question
\* and changes nothing else - no turn, no request, no loading flag; a user
\* turn is appended only by a send.
C28_QuickQuestionOnlyFillsInput ==
    [][/\ AskQuickQuestion(QuickQuestion) =>
            /\ newMessage' = QuickQuestion
            /\ UNCHANGED <<messages, chatLoading, selectedLanguage, net, toast>>
       /\ (/\ Len(messages') > Len(messages)
           /\ messages'[Len(messages')].type = "user") => SendMessage
      ]_vars

\* C28 witness: a quick question was picked while the request of a typed
\* message is outstanding; it sits in the input and has not been sent.
C28_Witness ==
    /\ ChatShown /\ chatLoading
    /\ newMessage = QuickQuestion
    /\ Len(messages) = 2
    /\ messages[2].content = <<"h", "i", " ">>
    /\ Cardinality({i \in DOMAIN net : net[i].op = "chat"}) = 1

\* ------------------------------------------- the gating of the views
\* The state of the components of the protected layout is the initial one.
ViewsBlank ==
    /\ predictions = <<>> /\ dashLoading = TRUE
    /\ formData = InitialFormData
    /\ states = <<>> /\ districts = <<>> /\ crops = <<>> /\ soilTypes = <<>>
    /\ loading = FALSE /\ prediction = Null
    /\ weatherData = Null /\ weatherLoading = FALSE
    /\ messages = InitialMessages /\ newMessage = <<>>
    /\ selectedLanguage = "en" /\ chatLoading = FALSE

\* C29: MainApp shows the loading screen, the login form or the protected
\* layout, one of them; while the layout is not shown none of its components
\* holds any state or has a request of its own in flight, and no step sends
\* a request of theirs; a login or registration is sent from the login form.
C29_ProtectedViewsGated ==
    /\ [](/\ LoginShown <=> (~authLoading /\ ~MainShown)
          /\ ~MainShown =>
               /\ ViewsBlank
               /\ \A k \in DOMAIN net : net[k].op \in MainOps => ~net[k].live)
    /\ [][\A j \in NewlyIssued :
             /\ net'[j].op \in MainOps => MainShown' /\ net'[j].live
             /\ net'[j].op \in AuthOps => LoginShown]_vars

\* C29 witness: after a logout from the Weather tab the user has logged in
\* again; the profile is being fetched and the login form is still shown.
C29_Witness ==
    /\ LoginShown
    /\ activeTab = "weather"
    /\ token # NullStr
    /\ \E i \in DOMAIN net : net[i].op = "me"

\* The request at position i has failed and its continuation runs in this
\* step.
FailureHandled(i) ==
    /\ i \in DOMAIN net
    /\ net[i].status = "fail"
    /\ \/ LoginResume(i)
       \/ FetchUserResume(i)
       \/ MainFails(i)

\* C30 (as claimed): the continuation of every failed request notifies the
\* user, with the detail of the response when it has one.
C30_EveryFailureNotified ==
    [][\A i \in DOMAIN net : FailureHandled(i) =>
          /\ toast' # NoToast
          /\ net[i].data.detail # NullStr =>
                toast'.description = net[i].data.detail]_vars

\* ------------------------------------------------- the session, with fairness
\* The promise of an issued request settles: the API answers it and the
\* continuation awaiting it runs.  A request moves only towards the head of
\* net, which holds MaxInFlight requests at most in a session, so fairness
\* at every position reaches every request.  Both steps
\* change the statuses in net (an answer turns a pending status, a
\* continuation removes a settled one and appends pending ones at most),
\* which is why the statuses alone are the subscript.
Statuses == [k \in DOMAIN net |-> net[k].status]
Settle(i) ==
    \/ LoginResume(i)
    \/ FetchUserResume(i)
    \/ FetchPredictionsResume(i)
    \/ FetchStatesResume(i)
    \/ FetchCropsResume(i)
    \/ FetchSoilTypesResume(i)
    \/ FetchDistrictsResume(i)
    \/ HandleSubmitResume(i)
    \/ FetchWeatherResume(i)
    \/ SendMessageResume(i)

RequestsComplete ==
    \A i \in 1..MaxInFlight :
        WF_Statuses(ServerRespond(i)) /\ WF_Statuses(Settle(i))

SpecLive == InitAuth /\ [][NextSession]_vars /\ RequestsComplete

DashboardLoading == MainShown /\ activeTab = "dashboard" /\ dashLoading

\* C31 Every loading flag that is set (session resolution, login form,
\* dashboard, prediction submission, weather, chat) is eventually cleared,
\* whichever outcome its request had, when every issued request completes.
C31_LoadingEventuallyCleared ==
    /\ authLoading ~> ~authLoading
    /\ loginLoading ~> ~loginLoading
    /\ DashboardLoading ~> ~DashboardLoading
    /\ loading ~> ~loading
    /\ weatherLoading ~> ~weatherLoading
    /\ chatLoading ~> ~chatLoading

C31_Witness ==
    /\ chatLoading
    /\ \E i \in DOMAIN net :
          net[i].op = "chat" /\ net[i].live /\ net[i].status = "fail"

\* ------------------------------------------------- properties, SpecAuth (2)
CredentialChanges ==
    token' # token \/ storage' # storage \/ header' # header

\* C32 The in-memory token, the persisted credential and the Authorization
\* header agree in every state (all absent or all the same token), and a
\* step that changes one of them changes all three.
C32_CredentialsAgree ==
    /\ [](token = storage /\ header = token)
    /\ [][CredentialChanges =>
            (token' # token /\ storage' # storage /\ header' # header)]_vars

C32_Witness ==
    /\ token = NullStr /\ storage = NullStr /\ header = NullStr
    /\ user # Null
    /\ \E i \in DOMAIN net : net[i].op \in AuthOps /\ net[i].status = "ok"

\* ---------------------------------------------- properties, SpecCascade (2)
DistrictsFail(i) ==
    /\ i \in DOMAIN net
    /\ net[i].op = "districts"
    /\ net[i].status = "fail"
    /\ FetchDistrictsResume(i)

\* C33 The continuation of a failed district fetch leaves the district
\* list as it was - the list of the state selected before, or empty - and
\* shows the failure notification.
C33_FailedFetchKeepsList ==
    [][\A i \in DOMAIN net :
          DistrictsFail(i) =>
              /\ districts' = districts
              /\ toast' = Toast("Error", "Failed to fetch districts",
                                "destructive")]_vars

\* C33 witness: the fetch for Bihar has failed and the list loaded for
\* Odisha is still there, under the notification.
C33_Witness ==
    /\ formData.state = "Bihar"
    /\ districts = DistrictsOf("Odisha")
    /\ DistrictFetches = {}
    /\ toast = Toast("Error", "Failed to fetch districts", "destructive")

\* ------------------------------------- leaving the prediction tab and back
\* The prediction form is filled and submitted, and the user goes to the
\* assistant's tab and back while requests of the form are in flight; a
\* fresh form mounts beside MaxRemountInFlight - 3 requests of the old one.
RemountTabs == {"chat", "predict"}
Remount == \E tab \in RemountTabs : SwitchTabWithin(tab, MaxRemountInFlight)

NextRemount ==
    \/ EditSession
    \/ HandleSubmit
    \/ RespondAny
    \/ SubmitDone
    \/ DistrictsDone
    \/ StatesDone
    \/ CropsDone
    \/ SoilTypesDone
    \/ Remount

SpecRemount == InitPredict /\ [][NextRemount]_vars

\* A request of a form that is no longer mounted settles.
DiscardedSettles(i) ==
    /\ i \in DOMAIN net
    /\ net[i].op \in {"predict", "districts"}
    /\ ~net[i].live
    /\ HandleSubmitResume(i) \/ FetchDistrictsResume(i)

ReloadsIssued ==
    \A op \in ReferenceOps :
        \E j \in NewlyIssued : net'[j].op = op /\ net'[j].live

\* C34 Coming back to the prediction tab mounts a fresh form - Editing,
\* every field blank, the reference lists empty and being reloaded, no
\* result - and the completion of a predict-yield or district request of a
\* discarded form changes neither the stage, the fields nor the lists.
C34_FreshInstanceUntouched ==
    /\ [][activeTab # "predict" /\ activeTab' = "predict" =>
            /\ Stage' = "Editing"
            /\ formData' = InitialFormData
            /\ prediction' = Null
            /\ Len(states') = 0 /\ Len(districts') = 0
            /\ Len(crops') = 0 /\ Len(soilTypes') = 0
            /\ ReloadsIssued]_vars
    /\ [][\A i \in DOMAIN net :
             DiscardedSettles(i) =>
                 /\ Stage' = Stage
                 /\ UNCHANGED <<formData, states, districts, crops, soilTypes,
                                prediction, loading>>]_vars

\* C34 witness: the fresh form has its states back and is still blank while
\* the prediction asked for by the discarded form has arrived.
C34_Witness ==
    /\ PredictMounted
    /\ Stage = "Editing"
    /\ formData = InitialFormData
    /\ states = StateList
    /\ \E i \in DOMAIN net :
          net[i].op = "predict" /\ ~net[i].live /\ net[i].status = "ok"

\* -------------------------------------------------- properties, SpecChat (2)
\* C35 (as claimed): when a chat request completes, with success or with
\* failure, the pending input is empty afterwards, whatever it held -
\* the text that was sent or a quick question put there meanwhile.
C35_CompletionClearsInput ==
    [][\A i \in DOMAIN net : ChatSettles(i) => Len(newMessage') = 0]_vars

\* C36 Every assistant turn after the greeting comes right after a user
\* turn and carries that turn's language, so that no two assistant turns are
\* adjacent after the greeting; and the user turn before an assistant turn
\* is the one of the request it answers.
C36_AssistantFollowsItsUserTurn ==
    /\ [](\A k \in 2..Len(messages) :
             messages[k].type = "bot" =>
                 /\ messages[k - 1].type = "user"
                 /\ messages[k].language = messages[k - 1].language)
    /\ [][\A i \in DOMAIN net :
             (ChatSettles(i) /\ Len(messages') > Len(messages)) =>
                 /\ messages[Len(messages)].type = "user"
                 /\ messages[Len(messages)].content = net[i].arg.message
                 /\ messages[Len(messages)].language = net[i].arg.language
                 /\ messages'[Len(messages')].language = net[i].arg.language
          ]_vars

\* C36 witness: the answer to a turn sent in English has arrived after the
\* selector was moved to Hindi.
C36_Witness ==
    /\ ChatShown
    /\ selectedLanguage = "hi"
    /\ Len(messages) = 3
    /\ messages[2].type = "user" /\ messages[2].language = "en"
    /\ messages[3].type = "bot" /\ messages[3].language = "en"

\* ------------------------------------------------- properties, SpecAuth (3)
ProfileFetches == {i \in DOMAIN net : net[i].op = "me"}

\* C37 The session is Resolving only while the profile fetch of a token
\* persisted at start is under way, the step that ends it is the
\* continuation of that fetch, and no step makes it Resolving again: a
\* login or registration that succeeds in the login form leaves the form
\* shown and idle while the profile fetch it triggers runs.
C37_ResolvingOnlyAtStartup ==
    /\ [](authLoading => user = Null /\ ProfileFetches # {})
    /\ [][/\ authLoading' => authLoading
          /\ authLoading /\ ~authLoading' =>
                \E i \in ProfileFetches : FetchUserResume(i)
          /\ \A i \in DOMAIN net :
                (LoginShown /\ net[i].live /\ LoginSucceeds(i)) =>
                    LoginShown' /\ ~loginLoading'
         ]_vars

\* C37 witness: the login form is shown and idle while the profile fetch of
\* a login that has just succeeded is unanswered.
C37_Witness ==
    /\ LoginShown
    /\ ~loginLoading
    /\ toast = Toast("Success", "Logged in successfully!", "default")
    /\ \E i \in ProfileFetches : net[i].status = "pending" /\ net[i].auth = token

====
